---- MODULE Spec2Model ----
(***************************************************************************)
(* Model of the two FreeCAD generators of the CADlayout repository:        *)
(*   CurrentLimitBox/scripts/generate_currentlimitbox.py  (gen = "box")    *)
(*   SplineBracket/scripts/generate_splinebracket.py      (gen = "bracket")*)
(*                                                                         *)
(* Lengths are fixed-point integers in thousandths of a millimetre         *)
(* (80.0 mm = 80000); sines, cosines and direction vectors are in          *)
(* ten-thousandths.  A product of a length with a trigonometric factor is  *)
(* rounded down to a thousandth (Mul).  The solid kernel is external: the  *)
(* Body is modelled as the ordered log of the operations applied to it,    *)
(* and the solid count the kernel reports after a cleanup pass is a        *)
(* nondeterministic choice in 0..MaxSolids.  Kernel calls themselves are   *)
(* taken to succeed.                                                       *)
(***************************************************************************)
EXTENDS Integers, Sequences, FiniteSets, TLC

VARIABLES
    gen,              \* which script runs: "box" or "bracket"
    pc,               \* the statement the script is at
    i,                \* index of the current for-loop iteration
    result,           \* the shape under construction: [ops, solids]
    doc,              \* the FreeCAD document: [created, objects, saves]
    stdout,           \* what the script printed, in order
    files,            \* files written, in order
    exc,              \* "none" or the exception that ended the script
    far_face_height,  \* local of the clip loop of build_model
    fillet_edges,     \* local of build_bracket
    TAB_ANGLE,        \* box parameters that are varied
    CLIP_WIDTH,
    CLIP_DEPTH,
    LEG_THICKNESS,    \* bracket parameters that are varied
    LEG_HEIGHT,
    PART_DEPTH

vars == << gen, pc, i, result, doc, stdout, files, exc, far_face_height,
           fillet_edges, TAB_ANGLE, CLIP_WIDTH, CLIP_DEPTH,
           LEG_THICKNESS, LEG_HEIGHT, PART_DEPTH >>

params == << TAB_ANGLE, CLIP_WIDTH, CLIP_DEPTH,
             LEG_THICKNESS, LEG_HEIGHT, PART_DEPTH >>

(***************************************************************************)
(* Bounds and units                                                        *)
(***************************************************************************)
MaxSolids == 2

Tol == 4

Unit == 100 * 100

Mul(a, b) == (a * b) \div Unit

Abs(a) == IF a < 0 THEN -a ELSE a

V(x, y, z) == << x, y, z >>

(***************************************************************************)
(* CurrentLimitBox: design parameters                                      *)
(***************************************************************************)
BOX_WIDTH == 80000
BOX_LENGTH == 79000
BOX_HEIGHT == 17000
WALL_THICKNESS == 2000

DEFAULT_TAB_ANGLE == 55
TAB_FACE_LENGTH == 35000
TAB_WALL_THICKNESS == 5000

POST_RADIUS == 1950
POST_HEIGHT == 6350
STRIP_CENTER_Y == 54000
POST_X_SPACING == 57000
POST_Y_SPACING == 7880

BULB_X == 20000
BULB_HOLE_DIAMETER == 15500
BULB_NOTCH_WIDTH == 3000
BULB_NOTCH_DEPTH == 4000

CLIP_THICKNESS == 2000
DEFAULT_CLIP_WIDTH == 10000
DEFAULT_CLIP_DEPTH == 8000
CLIP_GAP == 500

SWITCH_X == 55000
SWITCH_CUTOUT_WIDTH == 11800
SWITCH_CUTOUT_HEIGHT == 6300
SWITCH_SCREW_SPACING == 37500
SWITCH_SCREW_DIAMETER == 3200
SWITCH_CHAMFER_DEPTH == 2000

\* the values the varied box parameters are drawn from
TabAngles == {0, 30, 45, DEFAULT_TAB_ANGLE, 60, 90}
ClipWidths == {1000, 4000, DEFAULT_CLIP_WIDTH}
ClipDepths == {DEFAULT_CLIP_DEPTH, 12000, 20000}

(***************************************************************************)
(* CurrentLimitBox: derived values                                         *)
(***************************************************************************)
\* math.cos(math.radians(a)) and math.sin(math.radians(a)), in ten-thousandths
Cos(a) ==
    CASE a = 0 -> 10000 [] a = 30 -> 8660 [] a = 45 -> 7071
      [] a = 55 -> 5736 [] a = 60 -> 5000 [] a = 90 -> 0

Sin(a) ==
    CASE a = 0 -> 0 [] a = 30 -> 5000 [] a = 45 -> 7071
      [] a = 55 -> 8192 [] a = 60 -> 8660 [] a = 90 -> 10000

COS_A == Cos(TAB_ANGLE)
SIN_A == Sin(TAB_ANGLE)

CAVITY_WIDTH == BOX_WIDTH - 2 * WALL_THICKNESS
CAVITY_LENGTH == BOX_LENGTH - 2 * WALL_THICKNESS
\* the cavity closed by a wall at the top as well
CAVITY_DEPTH_TwoWalls == BOX_HEIGHT - 2 * WALL_THICKNESS

CAVITY_DEPTH == BOX_HEIGHT - WALL_THICKNESS
FLOOR_Z == WALL_THICKNESS

FACE_MID == TAB_FACE_LENGTH \div 2
FACE_CENTER_Y == Mul(FACE_MID, COS_A)
FACE_CENTER_Z == BOX_HEIGHT + Mul(FACE_MID, SIN_A)

FACE_DIR_Y == COS_A
FACE_DIR_Z == SIN_A
INWARD_DIR_Y == SIN_A
\* the normal's Z component without its sign
INWARD_DIR_Z_Positive == COS_A

INWARD_DIR_Z == -COS_A

POST_X1 == (BOX_WIDTH - POST_X_SPACING) \div 2
POST_X2 == POST_X1 + POST_X_SPACING
POST_Y_HALF == POST_Y_SPACING \div 2

BULB_RADIUS == BULB_HOLE_DIAMETER \div 2
CLIP_OFFSET_X == BULB_RADIUS + CLIP_GAP + CLIP_THICKNESS \div 2

SWITCH_SCREW_X1 == SWITCH_X - SWITCH_SCREW_SPACING \div 2
SWITCH_SCREW_X2 == SWITCH_X + SWITCH_SCREW_SPACING \div 2

INNER_CENTER_Y == FACE_CENTER_Y + Mul(TAB_WALL_THICKNESS, SIN_A)
INNER_CENTER_Z == FACE_CENTER_Z - Mul(TAB_WALL_THICKNESS, COS_A)

(***************************************************************************)
(* Shapes, operations and the document                                     *)
(***************************************************************************)
\* one operation applied to the Body: how it combines, which feature,
\* the feature's profile points and its other arguments
Op(mode, feature, pts, args) ==
    [mode |-> mode, feature |-> feature, pts |-> pts, args |-> args]

NoShape == [ops |-> << >>, solids |-> -1]

\* result = result.<mode>(feature): the new Body is the old one with one
\* more operation; its solid count is not known until it is asked for
Apply(shape, op) == [ops |-> Append(shape.ops, op), solids |-> -1]

\* result.removeSplitter(), the kernel reporting n solids for the outcome
RemoveSplitter(shape, n) ==
    [ops |-> Append(shape.ops, Op("cleanup", "removeSplitter", << >>, << >>)),
     solids |-> n]

Msg(tag, n) == [tag |-> tag, n |-> n]

NoDoc == [created |-> 0, objects |-> << >>, saves |-> 0]

AddObject(d, name, shape) ==
    [d EXCEPT !.objects = Append(@, [name |-> name, shape |-> shape])]

\* doc.getObject(name).Shape
GetShape(d, name) ==
    LET ix == CHOOSE k \in 1..Len(d.objects) : d.objects[k].name = name
    IN  d.objects[ix].shape

HasObject(d, name) == \E k \in 1..Len(d.objects) : d.objects[k].name = name

\* the statement after p in a straight-line program
Succ(order, p) ==
    LET ix == CHOOSE k \in 1..Len(order) : order[k] = p
    IN  order[ix + 1]

(***************************************************************************)
(* CurrentLimitBox: build_model                                            *)
(***************************************************************************)
\* build_model with the chamfer loft cut before the switch cutout
BuildModelOrder_ChamferFirst ==
    << "base", "tab", "posts", "bulb_hole", "notches", "clips",
       "chamfer", "switch_cutout", "screws", "cleanup", "check" >>

BuildModelOrder ==
    << "base", "tab", "posts", "bulb_hole", "notches", "clips",
       "switch_cutout", "chamfer", "screws", "cleanup", "check" >>

\* the script with the document saved after both exports
BoxProgram_SaveLast ==
    << "new_document" >> \o BuildModelOrder \o
    << "add_object", "export_stl", "export_meshed", "save", "print_done",
       "end" >>

BoxProgram ==
    << "new_document" >> \o BuildModelOrder \o
    << "add_object", "save", "export_stl", "export_meshed", "print_done",
       "end" >>

BoxNext(p) == Succ(BoxProgram, p)

\* box.cut(cavity)
BaseShell ==
    Op("base", "shell", << >>,
       << BOX_WIDTH, BOX_LENGTH, BOX_HEIGHT,
          CAVITY_WIDTH, CAVITY_LENGTH, CAVITY_DEPTH,
          WALL_THICKNESS, WALL_THICKNESS, WALL_THICKNESS >>)

TabProfile ==
    LET v1 == V(0, 0, BOX_HEIGHT)
        v2 == V(0, Mul(TAB_FACE_LENGTH, COS_A),
                   BOX_HEIGHT + Mul(TAB_FACE_LENGTH, SIN_A))
        v3 == V(0, v2[2] + Mul(TAB_WALL_THICKNESS, SIN_A),
                   v2[3] - Mul(TAB_WALL_THICKNESS, COS_A))
        v4 == V(0, v1[2] + Mul(TAB_WALL_THICKNESS, SIN_A),
                   v1[3] - Mul(TAB_WALL_THICKNESS, COS_A))
    IN  << v1, v2, v3, v4, v1 >>

Tab == Op("fuse", "tab", TabProfile, << BOX_WIDTH, 0, 0 >>)

\* the k-th post of the 2x2 grid, px outer loop, py_offset inner loop
Post(k) ==
    LET px == IF k <= 2 THEN POST_X1 ELSE POST_X2
        py_offset == IF k % 2 = 1 THEN -POST_Y_HALF ELSE POST_Y_HALF
    IN  Op("fuse", "post", << V(px, STRIP_CENTER_Y + py_offset, FLOOR_Z) >>,
           << POST_RADIUS, POST_HEIGHT, 0, 0, 1 >>)

BulbHole ==
    Op("cut", "bulb_hole",
       << V(BULB_X, FACE_CENTER_Y - Mul(2000, SIN_A), FACE_CENTER_Z + Mul(2000, COS_A)) >>,
       << BULB_RADIUS, 10000, 0, INWARD_DIR_Y, INWARD_DIR_Z >>)

NotchProfile(sign) ==
    LET nc_offset == BULB_RADIUS + BULB_NOTCH_DEPTH \div 2
        nc_y == FACE_CENTER_Y + sign * Mul(nc_offset, FACE_DIR_Y)
        nc_z == FACE_CENTER_Z + sign * Mul(nc_offset, FACE_DIR_Z)
        hw == BULB_NOTCH_WIDTH \div 2
        hd == BULB_NOTCH_DEPTH \div 2
        p1 == V(BULB_X - hw, nc_y - Mul(hd, FACE_DIR_Y) - Mul(2000, SIN_A),
                             nc_z - Mul(hd, FACE_DIR_Z) + Mul(2000, COS_A))
        p2 == V(BULB_X - hw, nc_y + Mul(hd, FACE_DIR_Y) - Mul(2000, SIN_A),
                             nc_z + Mul(hd, FACE_DIR_Z) + Mul(2000, COS_A))
        p3 == V(BULB_X + hw, nc_y + Mul(hd, FACE_DIR_Y) - Mul(2000, SIN_A),
                             nc_z + Mul(hd, FACE_DIR_Z) + Mul(2000, COS_A))
        p4 == V(BULB_X + hw, nc_y - Mul(hd, FACE_DIR_Y) - Mul(2000, SIN_A),
                             nc_z - Mul(hd, FACE_DIR_Z) + Mul(2000, COS_A))
    IN  << p1, p2, p3, p4, p1 >>

Notch(sign) ==
    Op("cut", "notch", NotchProfile(sign), << 0, Mul(10000, SIN_A), -Mul(10000, COS_A) >>)

\* far_face_height without the minimum lip
FarFaceHeight_NoClamp == CLIP_WIDTH - Mul(CLIP_DEPTH, COS_A)

\* far_face_height of the clip loop, with its clamp
FarFaceHeight ==
    LET h == CLIP_WIDTH - Mul(CLIP_DEPTH, COS_A)
    IN  IF h < 1000 THEN 1000 ELSE h

ClipProfile(sign, ffh) ==
    LET clip_x == BULB_X + sign * CLIP_OFFSET_X
        hw == CLIP_THICKNESS \div 2
        hf == CLIP_WIDTH \div 2
        p1_y == INNER_CENTER_Y - Mul(hf, FACE_DIR_Y)
        p1_z == INNER_CENTER_Z - Mul(hf, FACE_DIR_Z)
        p2_y == INNER_CENTER_Y + Mul(hf, FACE_DIR_Y)
        p2_z == INNER_CENTER_Z + Mul(hf, FACE_DIR_Z)
        p4_z == p1_z
        p4_y == p1_y + Mul(CLIP_DEPTH, SIN_A)
        p3_y == p4_y + Mul(ffh, FACE_DIR_Y)
        p3_z == p4_z + Mul(ffh, FACE_DIR_Z)
        x_off == clip_x - hw
    IN  << V(x_off, p1_y, p1_z), V(x_off, p2_y, p2_z),
           V(x_off, p3_y, p3_z), V(x_off, p4_y, p4_z), V(x_off, p1_y, p1_z) >>

Clip(sign, ffh) ==
    Op("fuse", "clip", ClipProfile(sign, ffh), << CLIP_THICKNESS, 0, 0 >>)

SwitchProfile ==
    LET sw_hw == SWITCH_CUTOUT_WIDTH \div 2
        sw_hh == SWITCH_CUTOUT_HEIGHT \div 2
        p1 == V(SWITCH_X - sw_hw,
                FACE_CENTER_Y - Mul(sw_hh, FACE_DIR_Y) - Mul(2000, SIN_A),
                FACE_CENTER_Z - Mul(sw_hh, FACE_DIR_Z) + Mul(2000, COS_A))
        p2 == V(SWITCH_X - sw_hw,
                FACE_CENTER_Y + Mul(sw_hh, FACE_DIR_Y) - Mul(2000, SIN_A),
                FACE_CENTER_Z + Mul(sw_hh, FACE_DIR_Z) + Mul(2000, COS_A))
        p3 == V(SWITCH_X + sw_hw,
                FACE_CENTER_Y + Mul(sw_hh, FACE_DIR_Y) - Mul(2000, SIN_A),
                FACE_CENTER_Z + Mul(sw_hh, FACE_DIR_Z) + Mul(2000, COS_A))
        p4 == V(SWITCH_X + sw_hw,
                FACE_CENTER_Y - Mul(sw_hh, FACE_DIR_Y) - Mul(2000, SIN_A),
                FACE_CENTER_Z - Mul(sw_hh, FACE_DIR_Z) + Mul(2000, COS_A))
    IN  << p1, p2, p3, p4, p1 >>

SwitchCutout ==
    Op("cut", "switch_cutout", SwitchProfile, << 0, Mul(10000, SIN_A), -Mul(10000, COS_A) >>)

\* the corner signs both chamfer loops run through
Corners(hw, hh) == << << -hw, -hh >>, << -hw, hh >>, << hw, hh >>, << hw, -hh >> >>

\* a rectangular loop on the tab face: half extents hw (along X) and hh
\* (along the face direction), pushed by off along the inward normal
FaceLoop(hw, hh, off) ==
    LET c == Corners(hw, hh)
        pt(k) == V(SWITCH_X + c[k][1],
                   FACE_CENTER_Y + Mul(c[k][2], FACE_DIR_Y) + Mul(off, INWARD_DIR_Y),
                   FACE_CENTER_Z + Mul(c[k][2], FACE_DIR_Z) + Mul(off, INWARD_DIR_Z))
    IN  << pt(1), pt(2), pt(3), pt(4), pt(1) >>

outer_hw == (SWITCH_CUTOUT_WIDTH + 2 * SWITCH_CHAMFER_DEPTH) \div 2
\* the outer loop widened by the chamfer depth in total, not per side
outer_hh_OneSide == (SWITCH_CUTOUT_HEIGHT + SWITCH_CHAMFER_DEPTH) \div 2

outer_hh == (SWITCH_CUTOUT_HEIGHT + 2 * SWITCH_CHAMFER_DEPTH) \div 2

OuterLoop == FaceLoop(outer_hw, outer_hh, 0)

InnerLoop ==
    FaceLoop(SWITCH_CUTOUT_WIDTH \div 2, SWITCH_CUTOUT_HEIGHT \div 2,
             SWITCH_CHAMFER_DEPTH)

\* Part.makeLoft([outer_wire, inner_wire], True): pts holds the outer loop
\* followed by the inner loop
ChamferLoft == Op("cut", "chamfer_loft", OuterLoop \o InnerLoop, << >>)

ScrewHole(k) ==
    LET sx == IF k = 1 THEN SWITCH_SCREW_X1 ELSE SWITCH_SCREW_X2
    IN  Op("cut", "screw_hole",
           << V(sx, FACE_CENTER_Y - Mul(2000, SIN_A), FACE_CENTER_Z + Mul(2000, COS_A)) >>,
           << SWITCH_SCREW_DIAMETER \div 2, 10000, 0, INWARD_DIR_Y, INWARD_DIR_Z >>)

Sign(k) == IF k = 1 THEN -1 ELSE 1

(***************************************************************************)
(* CurrentLimitBox: the script, statement by statement                     *)
(***************************************************************************)
Running == exc = "none"

\* leaves everything but pc, i and result alone
BuildFrame ==
    UNCHANGED << gen, doc, stdout, files, exc, far_face_height, fillet_edges,
                 params >>

\* create_document: doc = FreeCAD.newDocument(doc_name)
BoxNewDocument ==
    /\ gen = "box" /\ Running /\ pc = "new_document"
    /\ doc' = [doc EXCEPT !.created = @ + 1]
    /\ pc' = BoxNext(pc)
    /\ UNCHANGED << gen, i, result, stdout, files, exc, far_face_height,
                    fillet_edges, params >>

MakeBaseShell ==
    /\ gen = "box" /\ Running /\ pc = "base"
    /\ result' = Apply(NoShape, BaseShell)
    /\ pc' = BoxNext(pc)
    /\ i' = 1
    /\ BuildFrame

FuseTab ==
    /\ gen = "box" /\ Running /\ pc = "tab"
    /\ result' = Apply(result, Tab)
    /\ pc' = BoxNext(pc)
    /\ i' = 1
    /\ BuildFrame

FusePost ==
    /\ gen = "box" /\ Running /\ pc = "posts"
    /\ result' = Apply(result, Post(i))
    /\ IF i < 4 THEN pc' = pc /\ i' = i + 1
                ELSE pc' = BoxNext(pc) /\ i' = 1
    /\ BuildFrame

CutBulbHole ==
    /\ gen = "box" /\ Running /\ pc = "bulb_hole"
    /\ result' = Apply(result, BulbHole)
    /\ pc' = BoxNext(pc)
    /\ i' = 1
    /\ BuildFrame

CutNotch ==
    /\ gen = "box" /\ Running /\ pc = "notches"
    /\ result' = Apply(result, Notch(Sign(i)))
    /\ IF i < 2 THEN pc' = pc /\ i' = i + 1
                ELSE pc' = BoxNext(pc) /\ i' = 1
    /\ BuildFrame

FuseClip ==
    /\ gen = "box" /\ Running /\ pc = "clips"
    /\ far_face_height' = FarFaceHeight
    /\ result' = Apply(result, Clip(Sign(i), far_face_height'))
    /\ IF i < 2 THEN pc' = pc /\ i' = i + 1
                ELSE pc' = BoxNext(pc) /\ i' = 1
    /\ UNCHANGED << gen, doc, stdout, files, exc, fillet_edges, params >>

CutSwitchCutout ==
    /\ gen = "box" /\ Running /\ pc = "switch_cutout"
    /\ result' = Apply(result, SwitchCutout)
    /\ pc' = BoxNext(pc)
    /\ i' = 1
    /\ BuildFrame

CutChamferLoft ==
    /\ gen = "box" /\ Running /\ pc = "chamfer"
    /\ result' = Apply(result, ChamferLoft)
    /\ pc' = BoxNext(pc)
    /\ i' = 1
    /\ BuildFrame

CutScrewHole ==
    /\ gen = "box" /\ Running /\ pc = "screws"
    /\ result' = Apply(result, ScrewHole(i))
    /\ IF i < 2 THEN pc' = pc /\ i' = i + 1
                ELSE pc' = BoxNext(pc) /\ i' = 1
    /\ BuildFrame

\* result = result.removeSplitter()
BoxCleanUp ==
    /\ gen = "box" /\ Running /\ pc = "cleanup"
    /\ \E n \in 0..MaxSolids : result' = RemoveSplitter(result, n)
    /\ pc' = BoxNext(pc)
    /\ i' = 1
    /\ BuildFrame

\* what build_model does with a solid count other than 1
BoxCheckSolids(shape, out) ==
    IF shape.solids # 1
    THEN [out |-> Append(out, Msg("WARNING", shape.solids)), exc |-> "none"]
    ELSE [out |-> out, exc |-> "none"]

\* solid_count = len(result.Solids); if solid_count != 1: print; return
BoxCheck ==
    /\ gen = "box" /\ Running /\ pc = "check"
    /\ LET r == BoxCheckSolids(result, stdout)
       IN  /\ stdout' = r.out
           /\ exc' = r.exc
           /\ pc' = IF r.exc = "none" THEN BoxNext(pc) ELSE "aborted"
    /\ UNCHANGED << gen, i, result, doc, files, far_face_height, fillet_edges,
                    params >>

\* obj = doc.addObject(...); obj.Shape = shape; doc.recompute(); print
BoxAddObject ==
    /\ gen = "box" /\ Running /\ pc = "add_object"
    /\ doc' = AddObject(doc, "CurrentLimitBox", result)
    /\ stdout' = Append(stdout, Msg("Created", result.solids))
    /\ pc' = BoxNext(pc)
    /\ UNCHANGED << gen, i, result, files, exc, far_face_height, fillet_edges,
                    params >>

\* doc.saveAs(fcstd_path); print
BoxSave ==
    /\ gen = "box" /\ Running /\ pc = "save"
    /\ doc' = [doc EXCEPT !.saves = @ + 1]
    /\ files' = Append(files, "CurrentLimitBox.FCStd")
    /\ stdout' = Append(stdout, Msg("Saved", -1))
    /\ pc' = BoxNext(pc)
    /\ UNCHANGED << gen, i, result, exc, far_face_height, fillet_edges, params >>

\* export_stl(doc, stl_path)
BoxExportStl ==
    /\ gen = "box" /\ Running /\ pc = "export_stl"
    /\ HasObject(doc, "CurrentLimitBox")
    /\ files' = Append(files, "CurrentLimitBox.stl")
    /\ stdout' = Append(stdout, Msg("Exported STL", -1))
    /\ pc' = BoxNext(pc)
    /\ UNCHANGED << gen, i, result, doc, exc, far_face_height, fillet_edges,
                    params >>

\* export_meshed_stl(doc, meshed_path)
BoxExportMeshedStl ==
    /\ gen = "box" /\ Running /\ pc = "export_meshed"
    /\ HasObject(doc, "CurrentLimitBox")
    /\ files' = Append(files, "CurrentLimitBox (Meshed).stl")
    /\ stdout' = Append(stdout, Msg("Exported meshed STL", -1))
    /\ pc' = BoxNext(pc)
    /\ UNCHANGED << gen, i, result, doc, exc, far_face_height, fillet_edges,
                    params >>

\* print("Done!")
BoxPrintDone ==
    /\ gen = "box" /\ Running /\ pc = "print_done"
    /\ stdout' = Append(stdout, Msg("Done", -1))
    /\ pc' = BoxNext(pc)
    /\ UNCHANGED << gen, i, result, doc, files, exc, far_face_height,
                    fillet_edges, params >>

BoxStep ==
    \/ BoxNewDocument \/ MakeBaseShell \/ FuseTab \/ FusePost
    \/ CutBulbHole \/ CutNotch \/ FuseClip \/ CutSwitchCutout
    \/ CutChamferLoft \/ CutScrewHole \/ BoxCleanUp \/ BoxCheck
    \/ BoxAddObject \/ BoxSave \/ BoxExportStl \/ BoxExportMeshedStl
    \/ BoxPrintDone

(***************************************************************************)
(* SplineBracket: design parameters and derived values                     *)
(***************************************************************************)
PART_WIDTH == 60000
DEFAULT_PART_DEPTH == 60000
BOLT_DIAMETER == 6350
BOLT_RADIUS == BOLT_DIAMETER \div 2

HOLDER_HEIGHT == 32000
HOLDER_FLOOR == 10000

GROOVE_BOTTOM_WIDTH == 40000
GROOVE_STRAIGHT_HEIGHT == 17000
GROOVE_TAPER_HEIGHT == 5000
GROOVE_TAPER_INSET == 5000

TONGUE_WIDTH == 10000
TONGUE_DEPTH == 3000

FLANGE_THICKNESS == 10000
DEFAULT_LEG_THICKNESS == 10000
DEFAULT_LEG_HEIGHT == 120000
GUSSET_THICKNESS == 5000
FILLET_RADIUS == 3000

VGROOVE_WIDTH == 11000
VGROOVE_DEPTH == 3000

HOLDER_BOLT_X == PART_WIDTH \div 2
HOLDER_BOLT_Z == PART_DEPTH \div 2
LOWER_BOLT_Y == -93000
LOWER_BOLT_X == LEG_THICKNESS \div 2
LOWER_BOLT_Z == PART_DEPTH \div 2

\* the values the varied bracket parameters are drawn from
LegThicknesses == {DEFAULT_LEG_THICKNESS, 50000}
LegHeights == {60000, DEFAULT_LEG_HEIGHT}
PartDepths == {20000, DEFAULT_PART_DEPTH}

GROOVE_X_LEFT == (PART_WIDTH - GROOVE_BOTTOM_WIDTH) \div 2
GROOVE_X_RIGHT == GROOVE_X_LEFT + GROOVE_BOTTOM_WIDTH

GROOVE_Y_BOTTOM == HOLDER_FLOOR
GROOVE_Y_TAPER_START == GROOVE_Y_BOTTOM + GROOVE_STRAIGHT_HEIGHT
GROOVE_Y_TOP == GROOVE_Y_TAPER_START + GROOVE_TAPER_HEIGHT

GROOVE_TOP_LEFT == GROOVE_X_LEFT + GROOVE_TAPER_INSET
GROOVE_TOP_RIGHT == GROOVE_X_RIGHT - GROOVE_TAPER_INSET

TONGUE_X_LEFT == HOLDER_BOLT_X - TONGUE_WIDTH \div 2
TONGUE_X_RIGHT == HOLDER_BOLT_X + TONGUE_WIDTH \div 2

\* the groove's left base point placed with the tongue's width
VGROOVE_Z_LEFT_TongueWidth == LOWER_BOLT_Z - TONGUE_WIDTH \div 2

VGROOVE_Z_LEFT == LOWER_BOLT_Z - VGROOVE_WIDTH \div 2
VGROOVE_Z_RIGHT == LOWER_BOLT_Z + VGROOVE_WIDTH \div 2

GUSSET_V1 == << LEG_THICKNESS, -FLANGE_THICKNESS >>
GUSSET_V2 == << PART_WIDTH, -FLANGE_THICKNESS >>
GUSSET_V3 == << LEG_THICKNESS, -LEG_HEIGHT >>

(***************************************************************************)
(* SplineBracket: the features of build_holder and build_bracket           *)
(***************************************************************************)
HolderBlock ==
    Op("base", "block", << >>, << PART_WIDTH, HOLDER_HEIGHT, PART_DEPTH >>)

groove_pts ==
    << V(GROOVE_X_LEFT, GROOVE_Y_BOTTOM, 0),
       V(GROOVE_X_RIGHT, GROOVE_Y_BOTTOM, 0),
       V(GROOVE_X_RIGHT, GROOVE_Y_TAPER_START, 0),
       V(GROOVE_TOP_RIGHT, GROOVE_Y_TOP, 0),
       V(GROOVE_TOP_RIGHT, GROOVE_Y_TOP + 1000, 0),
       V(GROOVE_TOP_LEFT, GROOVE_Y_TOP + 1000, 0),
       V(GROOVE_TOP_LEFT, GROOVE_Y_TOP, 0),
       V(GROOVE_X_LEFT, GROOVE_Y_TAPER_START, 0),
       V(GROOVE_X_LEFT, GROOVE_Y_BOTTOM, 0) >>

HolderGroove == Op("cut", "groove", groove_pts, << 0, 0, PART_DEPTH >>)

\* the tongue's triangle without its closing point
tongue_pts_Open ==
    << V(TONGUE_X_LEFT, 0, 0),
       V(TONGUE_X_RIGHT, 0, 0),
       V(HOLDER_BOLT_X, -TONGUE_DEPTH, 0) >>

tongue_pts ==
    << V(TONGUE_X_LEFT, 0, 0),
       V(TONGUE_X_RIGHT, 0, 0),
       V(HOLDER_BOLT_X, -TONGUE_DEPTH, 0),
       V(TONGUE_X_LEFT, 0, 0) >>

HolderTongue == Op("fuse", "tongue", tongue_pts, << 0, 0, PART_DEPTH >>)

HolderBolt ==
    Op("cut", "bolt",
       << V(HOLDER_BOLT_X, -TONGUE_DEPTH - 1000, HOLDER_BOLT_Z) >>,
       << BOLT_RADIUS, HOLDER_FLOOR + TONGUE_DEPTH + 2000, 0, 1, 0 >>)

\* flange.fuse(leg)
FlangeLeg ==
    Op("base", "flange_leg",
       << V(0, -FLANGE_THICKNESS, 0), V(0, -LEG_HEIGHT, 0) >>,
       << PART_WIDTH, FLANGE_THICKNESS, PART_DEPTH,
          LEG_THICKNESS, LEG_HEIGHT, PART_DEPTH >>)

gusset_pts ==
    << V(GUSSET_V1[1], GUSSET_V1[2], 0),
       V(GUSSET_V2[1], GUSSET_V2[2], 0),
       V(GUSSET_V3[1], GUSSET_V3[2], 0),
       V(GUSSET_V1[1], GUSSET_V1[2], 0) >>

\* gusset k: the extruded triangle, the second one translated to the back
Gusset(k) ==
    Op("fuse", "gusset", gusset_pts,
       << 0, 0, GUSSET_THICKNESS,
          IF k = 1 THEN 0 ELSE PART_DEPTH - GUSSET_THICKNESS >>)

vgroove_pts ==
    << V(0, 1000, VGROOVE_Z_LEFT),
       V(0, 1000, VGROOVE_Z_RIGHT),
       V(0, -VGROOVE_DEPTH, LOWER_BOLT_Z),
       V(0, 1000, VGROOVE_Z_LEFT) >>

VGroove == Op("cut", "vgroove", vgroove_pts, << PART_WIDTH, 0, 0 >>)

UpperBolt ==
    Op("cut", "upper_bolt",
       << V(HOLDER_BOLT_X, -FLANGE_THICKNESS - 1000, HOLDER_BOLT_Z) >>,
       << BOLT_RADIUS, FLANGE_THICKNESS + 2000, 0, 1, 0 >>)

LowerBolt ==
    Op("cut", "lower_bolt",
       << V(-1000, LOWER_BOLT_Y, LOWER_BOLT_Z) >>,
       << BOLT_RADIUS, LEG_THICKNESS + 2000, 1, 0, 0 >>)

Fillet(edges) ==
    Op("fillet", "fillet", << >>, << FILLET_RADIUS, Len(edges) >>)

(***************************************************************************)
(* SplineBracket: the edges of the assembled bracket and their classifier  *)
(*                                                                         *)
(* bracket.Edges is the boundary of flange + leg + two gussets with the    *)
(* V-groove and the bolt holes cut, coplanar faces merged.  An edge is its *)
(* curve class (line or not), its midpoint and its length.  The layout     *)
(* below holds while the upper bolt hole lies clear of the leg's inner     *)
(* face and inside the groove, which the parameter values drawn in Init    *)
(* satisfy.                                                                *)
(***************************************************************************)
RECURSIVE ISqrtIter(_, _)
ISqrtIter(n, x) ==
    LET y == (x + n \div x) \div 2
    IN  IF y >= x THEN x ELSE ISqrtIter(n, y)

ISqrt(n) == IF n = 0 THEN 0 ELSE ISqrtIter(n, n)

\* edge.Length of a straight edge from p to q
Dist(p, q) ==
    LET dx == Abs(p[1] - q[1])
        dy == Abs(p[2] - q[2])
        dz == Abs(p[3] - q[3])
        sx == dx \div 10
        sy == dy \div 10
        sz == dz \div 10
    IN  IF (dx = 0 /\ dy = 0) \/ (dx = 0 /\ dz = 0) \/ (dy = 0 /\ dz = 0)
        THEN dx + dy + dz
        ELSE 10 * ISqrt(sx * sx + sy * sy + sz * sz)

Edge(name, line, mid, len) ==
    [name |-> name, line |-> line, mid |-> mid, len |-> len]

\* a straight edge from p to q; edge.valueAt(mid_param) is its midpoint
LineEdge(name, p, q) ==
    Edge(name, TRUE,
         V((p[1] + q[1]) \div 2, (p[2] + q[2]) \div 2, (p[3] + q[3]) \div 2),
         Dist(p, q))

\* a full circle of the bolt radius around centre c, seam towards +u
CircleEdge(name, c, u) ==
    Edge(name, FALSE, V(c[1] - u[1], c[2] - u[2], c[3] - u[3]),
         (2 * 3142 * BOLT_RADIUS) \div 1000)

\* half width of the V-groove where it meets the flange top (Y = 0): the
\* profile's base lies 1 above the top, its apex VGROOVE_DEPTH below
VGrooveHalfWidthAtTop ==
    (((VGROOVE_Z_RIGHT - VGROOVE_Z_LEFT) \div 2) * VGROOVE_DEPTH)
        \div (VGROOVE_DEPTH + 1000)

LowerBoltCutsLeg == -LOWER_BOLT_Y + BOLT_RADIUS < LEG_HEIGHT

UpperBoltIsThrough == HOLDER_BOLT_X - BOLT_RADIUS > LEG_THICKNESS

BracketEdges ==
    LET PW == PART_WIDTH
        PD == PART_DEPTH
        LT == LEG_THICKNESS
        LH == LEG_HEIGHT
        FT == FLANGE_THICKNESS
        GT == GUSSET_THICKNESS
        VD == VGROOVE_DEPTH
        R  == BOLT_RADIUS
        c  == LOWER_BOLT_Z
        g  == VGrooveHalfWidthAtTop
        bx == HOLDER_BOLT_X
        by == IF UpperBoltIsThrough THEN -FT ELSE -FT - 1000
        alongZ ==
            << LineEdge("top_back_a", V(0, 0, 0), V(0, 0, c - g)),
               LineEdge("top_back_b", V(0, 0, c + g), V(0, 0, PD)),
               LineEdge("top_right_a", V(PW, 0, 0), V(PW, 0, c - g)),
               LineEdge("top_right_b", V(PW, 0, c + g), V(PW, 0, PD)),
               LineEdge("flange_right_front", V(PW, -FT, 0), V(PW, -FT, GT)),
               LineEdge("flange_right_mid", V(PW, -FT, GT), V(PW, -FT, PD - GT)),
               LineEdge("flange_right_back", V(PW, -FT, PD - GT), V(PW, -FT, PD)),
               LineEdge("leg_foot_front", V(LT, -LH, 0), V(LT, -LH, GT)),
               LineEdge("leg_foot_mid", V(LT, -LH, GT), V(LT, -LH, PD - GT)),
               LineEdge("leg_foot_back", V(LT, -LH, PD - GT), V(LT, -LH, PD)),
               LineEdge("leg_foot_outer", V(0, -LH, 0), V(0, -LH, PD)),
               LineEdge("l_junction", V(LT, -FT, GT), V(LT, -FT, PD - GT)) >>
        alongX ==
            << LineEdge("top_front", V(0, 0, 0), V(PW, 0, 0)),
               LineEdge("top_rear", V(0, 0, PD), V(PW, 0, PD)),
               LineEdge("foot_front", V(0, -LH, 0), V(LT, -LH, 0)),
               LineEdge("foot_rear", V(0, -LH, PD), V(LT, -LH, PD)),
               LineEdge("groove_rim_a", V(0, 0, c - g), V(PW, 0, c - g)),
               LineEdge("groove_rim_b", V(0, 0, c + g), V(PW, 0, c + g)),
               LineEdge("groove_apex_a", V(0, -VD, c), V(bx - R, -VD, c)),
               LineEdge("groove_apex_b", V(bx + R, -VD, c), V(PW, -VD, c)),
               LineEdge("gusset_flange_front", V(LT, -FT, GT), V(PW, -FT, GT)),
               LineEdge("gusset_flange_back",
                        V(LT, -FT, PD - GT), V(PW, -FT, PD - GT)) >>
        alongY ==
            << LineEdge("back_front", V(0, 0, 0), V(0, -LH, 0)),
               LineEdge("back_rear", V(0, 0, PD), V(0, -LH, PD)),
               LineEdge("right_front", V(PW, 0, 0), V(PW, -FT, 0)),
               LineEdge("right_rear", V(PW, 0, PD), V(PW, -FT, PD)),
               LineEdge("gusset_leg_front", V(LT, -FT, GT), V(LT, -LH, GT)),
               LineEdge("gusset_leg_back",
                        V(LT, -FT, PD - GT), V(LT, -LH, PD - GT)) >>
        oblique ==
            << LineEdge("hypotenuse_1", V(PW, -FT, 0), V(LT, -LH, 0)),
               LineEdge("hypotenuse_2", V(PW, -FT, GT), V(LT, -LH, GT)),
               LineEdge("hypotenuse_3", V(PW, -FT, PD - GT), V(LT, -LH, PD - GT)),
               LineEdge("hypotenuse_4", V(PW, -FT, PD), V(LT, -LH, PD)),
               LineEdge("groove_end_1", V(0, 0, c - g), V(0, -VD, c)),
               LineEdge("groove_end_2", V(0, 0, c + g), V(0, -VD, c)),
               LineEdge("groove_end_3", V(PW, 0, c - g), V(PW, -VD, c)),
               LineEdge("groove_end_4", V(PW, 0, c + g), V(PW, -VD, c)) >>
        upperBolt ==
            << LineEdge("upper_bolt_seam", V(bx + R, by, c), V(bx + R, -VD, c)),
               CircleEdge("upper_bolt_exit", V(bx, by, c), V(R, 0, 0)),
               Edge("upper_bolt_groove_a", FALSE, V(bx, -VD + 1000, c - R),
                    (3142 * R) \div 1000),
               Edge("upper_bolt_groove_b", FALSE, V(bx, -VD + 1000, c + R),
                    (3142 * R) \div 1000) >>
        lowerBolt ==
            IF LowerBoltCutsLeg
            THEN << LineEdge("lower_bolt_seam", V(0, LOWER_BOLT_Y, c + R),
                             V(LT, LOWER_BOLT_Y, c + R)),
                    CircleEdge("lower_bolt_in", V(0, LOWER_BOLT_Y, c), V(0, 0, R)),
                    CircleEdge("lower_bolt_out", V(LT, LOWER_BOLT_Y, c),
                               V(0, 0, R)) >>
            ELSE << >>
    IN  alongZ \o alongX \o alongY \o oblique \o upperBolt \o lowerBolt

\* the edge loop with the gusset-to-flange test not looking at Z
IsFilletEdge_AnyZ(edge) ==
    LET mid == edge.mid
        atGussetZ == \/ Abs(mid[3] - GUSSET_THICKNESS) < 1000
                     \/ Abs(mid[3] - (PART_DEPTH - GUSSET_THICKNESS)) < 1000
    IN  IF ~edge.line THEN FALSE
        ELSE IF /\ Abs(mid[1] - LEG_THICKNESS) < 1000
                /\ Abs(mid[2] - (-FLANGE_THICKNESS)) < 1000
                /\ edge.len > 10000
             THEN TRUE
        ELSE IF /\ Abs(mid[1] - LEG_THICKNESS) < 1000
                /\ edge.len > 50000
                /\ atGussetZ
             THEN TRUE
        ELSE IF /\ Abs(mid[2] - (-FLANGE_THICKNESS)) < 1000
                /\ edge.len > 10000
             THEN TRUE
        ELSE FALSE

\* the body of the loop over bracket.Edges: TRUE when the edge is appended
IsFilletEdge(edge) ==
    LET mid == edge.mid
        atGussetZ == \/ Abs(mid[3] - GUSSET_THICKNESS) < 1000
                     \/ Abs(mid[3] - (PART_DEPTH - GUSSET_THICKNESS)) < 1000
    IN  IF ~edge.line THEN FALSE
        ELSE IF /\ Abs(mid[1] - LEG_THICKNESS) < 1000
                /\ Abs(mid[2] - (-FLANGE_THICKNESS)) < 1000
                /\ edge.len > 10000
             THEN TRUE
        ELSE IF /\ Abs(mid[1] - LEG_THICKNESS) < 1000
                /\ edge.len > 50000
                /\ atGussetZ
             THEN TRUE
        ELSE IF /\ Abs(mid[2] - (-FLANGE_THICKNESS)) < 1000
                /\ edge.len > 10000
                /\ atGussetZ
             THEN TRUE
        ELSE FALSE

SelectFilletEdges(edges) == SelectSeq(edges, IsFilletEdge)

\* build_bracket filleting whatever the edge loop found
FilletBranch_Always(edges) == "b_fillet"

\* if fillet_edges: ... : where build_bracket goes after the edge loop
FilletBranch(edges) == IF edges # << >> THEN "b_fillet" ELSE "b_add"

(***************************************************************************)
(* SplineBracket: the script, statement by statement                       *)
(***************************************************************************)
BuildHolderOrder ==
    << "h_block", "h_groove", "h_tongue", "h_bolt", "h_cleanup", "h_assert",
       "h_add" >>

\* build_bracket with the V-groove and bolt holes cut before the gussets
BuildBracketOrder_CutsFirst ==
    << "b_base", "b_vgroove", "b_upper_bolt", "b_lower_bolt", "b_gusset1",
       "b_gusset2", "b_cleanup", "b_assert", "b_classify", "b_fillet",
       "b_fillet_cleanup", "b_fillet_assert", "b_add" >>

BuildBracketOrder ==
    << "b_base", "b_gusset1", "b_gusset2", "b_vgroove", "b_upper_bolt",
       "b_lower_bolt", "b_cleanup", "b_assert", "b_classify", "b_fillet",
       "b_fillet_cleanup", "b_fillet_assert", "b_add" >>

BracketProgram ==
    << "new_document" >> \o BuildHolderOrder \o BuildBracketOrder \o
    << "recompute", "save_document", "export_parts", "report", "end" >>

BracketNext(p) == Succ(BracketProgram, p)

\* assert len(shape.Solids) == 1, "..."
AssertOneSolid(shape, out) ==
    IF shape.solids # 1
    THEN [out |-> out, exc |-> "AssertionError"]
    ELSE [out |-> out, exc |-> "none"]

\* the objects export_parts meshes and the files it writes, in loop order
ExportList ==
    << [obj |-> "HolderBlock", file |-> "SplineBracket-Holder.stl"],
       [obj |-> "GussetBracket", file |-> "SplineBracket-GussetBracket.stl"] >>

\* one statement result = result.<mode>(feature) of a builder
BracketApply(label, op) ==
    /\ gen = "bracket" /\ Running /\ pc = label
    /\ result' = Apply(IF op.mode = "base" THEN NoShape ELSE result, op)
    /\ pc' = BracketNext(pc)
    /\ UNCHANGED << gen, i, doc, stdout, files, exc, far_face_height,
                    fillet_edges, params >>

\* one statement result = result.removeSplitter()
BracketCleanUp(label) ==
    /\ gen = "bracket" /\ Running /\ pc = label
    /\ \E n \in 0..MaxSolids : result' = RemoveSplitter(result, n)
    /\ pc' = BracketNext(pc)
    /\ UNCHANGED << gen, i, doc, stdout, files, exc, far_face_height,
                    fillet_edges, params >>

\* one assert statement of a builder
BracketAssert(label) ==
    /\ gen = "bracket" /\ Running /\ pc = label
    /\ LET r == AssertOneSolid(result, stdout)
       IN  /\ stdout' = r.out
           /\ exc' = r.exc
           /\ pc' = IF r.exc = "none" THEN BracketNext(pc) ELSE "aborted"
    /\ UNCHANGED << gen, i, result, doc, files, far_face_height, fillet_edges,
                    params >>

\* obj = doc.addObject("Part::Feature", name); obj.Shape = result; return obj
BracketAddObject(label, name) ==
    /\ gen = "bracket" /\ Running /\ pc = label
    /\ doc' = AddObject(doc, name, result)
    /\ pc' = BracketNext(pc)
    /\ UNCHANGED << gen, i, result, stdout, files, exc, far_face_height,
                    fillet_edges, params >>

\* doc = FreeCAD.newDocument("SplineBracket")
BracketNewDocument ==
    /\ gen = "bracket" /\ Running /\ pc = "new_document"
    /\ doc' = [doc EXCEPT !.created = @ + 1]
    /\ pc' = BracketNext(pc)
    /\ UNCHANGED << gen, i, result, stdout, files, exc, far_face_height,
                    fillet_edges, params >>

HolderMakeBlock == BracketApply("h_block", HolderBlock)
HolderCutGroove == BracketApply("h_groove", HolderGroove)
HolderFuseTongue == BracketApply("h_tongue", HolderTongue)
HolderCutBolt == BracketApply("h_bolt", HolderBolt)
HolderCleanUp == BracketCleanUp("h_cleanup")
HolderAssert == BracketAssert("h_assert")
HolderAddObject == BracketAddObject("h_add", "HolderBlock")

BracketFuseFlangeLeg == BracketApply("b_base", FlangeLeg)
BracketFuseGusset1 == BracketApply("b_gusset1", Gusset(1))
BracketFuseGusset2 == BracketApply("b_gusset2", Gusset(2))
BracketCutVGroove == BracketApply("b_vgroove", VGroove)
BracketCutUpperBolt == BracketApply("b_upper_bolt", UpperBolt)
BracketCutLowerBolt == BracketApply("b_lower_bolt", LowerBolt)
BracketCleanUp1 == BracketCleanUp("b_cleanup")
BracketAssert1 == BracketAssert("b_assert")

\* the loop over bracket.Edges, then "if fillet_edges:"
BracketClassify ==
    /\ gen = "bracket" /\ Running /\ pc = "b_classify"
    /\ fillet_edges' = SelectFilletEdges(BracketEdges)
    /\ pc' = FilletBranch(fillet_edges')
    /\ UNCHANGED << gen, i, result, doc, stdout, files, exc, far_face_height,
                    params >>

\* bracket = bracket.makeFillet(FILLET_RADIUS, fillet_edges)
BracketMakeFillet == BracketApply("b_fillet", Fillet(fillet_edges))
BracketCleanUp2 == BracketCleanUp("b_fillet_cleanup")
BracketAssert2 == BracketAssert("b_fillet_assert")
BracketAddGusset == BracketAddObject("b_add", "GussetBracket")

\* doc.recompute()
BracketRecompute ==
    /\ gen = "bracket" /\ Running /\ pc = "recompute"
    /\ pc' = BracketNext(pc)
    /\ i' = 1
    /\ UNCHANGED << gen, result, doc, stdout, files, exc, far_face_height,
                    fillet_edges, params >>

\* save_document(doc)
BracketSaveDocument ==
    /\ gen = "bracket" /\ Running /\ pc = "save_document"
    /\ doc' = [doc EXCEPT !.saves = @ + 1]
    /\ files' = Append(files, "SplineBracket.FCStd")
    /\ stdout' = Append(stdout, Msg("Saved", -1))
    /\ pc' = BracketNext(pc)
    /\ UNCHANGED << gen, i, result, exc, far_face_height, fillet_edges, params >>

\* export_parts(doc): one iteration of its loop
BracketExportPart ==
    /\ gen = "bracket" /\ Running /\ pc = "export_parts"
    /\ HasObject(doc, ExportList[i].obj)
    /\ files' = Append(files, ExportList[i].file)
    /\ stdout' = Append(stdout, Msg("Exported", -1))
    /\ IF i < Len(ExportList) THEN pc' = pc /\ i' = i + 1
                              ELSE pc' = BracketNext(pc) /\ i' = 1
    /\ UNCHANGED << gen, result, doc, exc, far_face_height, fillet_edges,
                    params >>

\* the three closing print statements
BracketReport ==
    /\ gen = "bracket" /\ Running /\ pc = "report"
    /\ stdout' = stdout \o << Msg("Holder volume", -1),
                              Msg("Bracket volume", -1), Msg("Done", -1) >>
    /\ pc' = BracketNext(pc)
    /\ UNCHANGED << gen, i, result, doc, files, exc, far_face_height,
                    fillet_edges, params >>

BracketStep ==
    \/ BracketNewDocument
    \/ HolderMakeBlock \/ HolderCutGroove \/ HolderFuseTongue \/ HolderCutBolt
    \/ HolderCleanUp \/ HolderAssert \/ HolderAddObject
    \/ BracketFuseFlangeLeg \/ BracketFuseGusset1 \/ BracketFuseGusset2
    \/ BracketCutVGroove \/ BracketCutUpperBolt \/ BracketCutLowerBolt
    \/ BracketCleanUp1 \/ BracketAssert1 \/ BracketClassify
    \/ BracketMakeFillet \/ BracketCleanUp2 \/ BracketAssert2
    \/ BracketAddGusset \/ BracketRecompute \/ BracketSaveDocument
    \/ BracketExportPart \/ BracketReport

(***************************************************************************)
(* Specification                                                           *)
(***************************************************************************)
\* the script run and the parameter values it runs with; a run of one
\* script leaves the other script's parameters at their defaults
Init ==
    /\ gen \in {"box", "bracket"}
    /\ pc = "new_document"
    /\ i = 1
    /\ result = NoShape
    /\ doc = NoDoc
    /\ stdout = << >>
    /\ files = << >>
    /\ exc = "none"
    /\ far_face_height = 0
    /\ fillet_edges = << >>
    /\ TAB_ANGLE \in TabAngles
    /\ CLIP_WIDTH \in ClipWidths
    /\ CLIP_DEPTH \in ClipDepths
    /\ LEG_THICKNESS \in LegThicknesses
    /\ LEG_HEIGHT \in LegHeights
    /\ PART_DEPTH \in PartDepths
    /\ gen = "box" =>
          /\ LEG_THICKNESS = DEFAULT_LEG_THICKNESS
          /\ LEG_HEIGHT = DEFAULT_LEG_HEIGHT
          /\ PART_DEPTH = DEFAULT_PART_DEPTH
    /\ gen = "bracket" =>
          /\ TAB_ANGLE = DEFAULT_TAB_ANGLE
          /\ CLIP_WIDTH = DEFAULT_CLIP_WIDTH
          /\ CLIP_DEPTH = DEFAULT_CLIP_DEPTH

Next == BoxStep \/ BracketStep

Spec == Init /\ [][Next]_vars

(***************************************************************************)
(* Properties                                                              *)
(***************************************************************************)
\* the operations of a shape, as << mode, feature >> pairs in order
Log(shape) == [k \in 1..Len(shape.ops) |-> << shape.ops[k].mode, shape.ops[k].feature >>]

IsPrefix(s, t) == Len(s) <= Len(t) /\ \A k \in 1..Len(s) : s[k] = t[k]

\* the operations of a shape that apply feature f
FeatureOps(shape, f) == SelectSeq(shape.ops, LAMBDA o : o.feature = f)

Printed(tag, n) == \E k \in 1..Len(stdout) : stdout[k] = Msg(tag, n)

PrintedTag(tag) == \E k \in 1..Len(stdout) : stdout[k].tag = tag

Written == {files[k] : k \in 1..Len(files)}

\* the statements at which a cleaned-up shape has not been checked yet
CheckLabels == {"check", "h_assert", "b_assert", "b_fillet_assert"}

\* a builder has checked a cleaned-up shape whose solid count is not 1
CheckedMultiSolid ==
    /\ result.solids \notin {-1, 1}
    /\ pc \notin CheckLabels

\* C1: in every builder (build_model, build_holder, build_bracket and the
\* re-check after filleting) a solid count other than 1 does not abort the
\* build: a diagnostic is emitted and the shape goes on to the caller.
C1_SoftFailureEverywhere ==
    /\ exc = "none"
    /\ pc # "aborted"
    /\ CheckedMultiSolid => Printed("WARNING", result.solids)

\* what each script is to have written when it ends
Outputs(g) ==
    IF g = "box"
    THEN {"CurrentLimitBox.FCStd", "CurrentLimitBox.stl",
          "CurrentLimitBox (Meshed).stl"}
    ELSE {"SplineBracket.FCStd", "SplineBracket-Holder.stl",
          "SplineBracket-GussetBracket.stl"}

ReportedVolume ==
    IF gen = "box" THEN PrintedTag("Created")
    ELSE PrintedTag("Holder volume") /\ PrintedTag("Bracket volume")

ReportedSolidCount ==
    \E k \in 1..Len(stdout) : stdout[k].tag = "Created" /\ stdout[k].n >= 0

\* no statement is left to run
Stopped == pc \in {"end", "aborted"}

\* C2: every run of either script ends having written the native document
\* and every STL export and having reported volume and solid count,
\* whatever the solid counts of the built shapes.
C2_AllOutputsAtEnd ==
    Stopped => /\ pc = "end"
               /\ Outputs(gen) \subseteq Written
               /\ ReportedVolume
               /\ ReportedSolidCount

BoxExpected ==
    << << "base", "shell" >>, << "fuse", "tab" >>,
       << "fuse", "post" >>, << "fuse", "post" >>,
       << "fuse", "post" >>, << "fuse", "post" >>,
       << "cut", "bulb_hole" >>,
       << "cut", "notch" >>, << "cut", "notch" >>,
       << "fuse", "clip" >>, << "fuse", "clip" >>,
       << "cut", "switch_cutout" >>, << "cut", "chamfer_loft" >>,
       << "cut", "screw_hole" >>, << "cut", "screw_hole" >>,
       << "cleanup", "removeSplitter" >> >>

BoxBuilt ==
    /\ gen = "box"
    /\ pc \in {"check", "add_object", "save", "export_stl", "export_meshed",
               "print_done", "end"}

\* the ops of feature f in a shape are pairwise different
AllDistinct(shape, f) ==
    LET fs == FeatureOps(shape, f)
    IN  \A j, k \in 1..Len(fs) : j # k => fs[j] # fs[k]

\* C3: build_model applies base shell, tab, 4 posts, bulb hole, 2 notches,
\* 2 clips, switch cutout, chamfer loft, 2 screw holes and then one cleanup
\* pass, in this order, each step on the Body the previous step left and
\* each feature once.
C3_BuildModelOrder ==
    gen = "box" =>
        /\ IsPrefix(Log(result), BoxExpected)
        /\ BoxBuilt => /\ Log(result) = BoxExpected
                       /\ \A f \in {"post", "notch", "clip", "screw_hole"} :
                              AllDistinct(result, f)

C3_Witness == BoxBuilt /\ pc = "end" /\ Len(result.ops) = Len(BoxExpected)

BracketExpected ==
    << << "base", "flange_leg" >>,
       << "fuse", "gusset" >>, << "fuse", "gusset" >>,
       << "cut", "vgroove" >>,
       << "cut", "upper_bolt" >>, << "cut", "lower_bolt" >>,
       << "cleanup", "removeSplitter" >>,
       << "fillet", "fillet" >>,
       << "cleanup", "removeSplitter" >> >>

\* result holds the bracket Body (the holder is stored, flange and leg fused)
InBracketBuild ==
    /\ gen = "bracket"
    /\ HasObject(doc, "HolderBlock")
    /\ pc # "b_base"

\* positions in a shape's operations at which feature f is applied
Positions(shape, f) == {k \in 1..Len(shape.ops) : shape.ops[k].feature = f}

BracketCuts == {"vgroove", "upper_bolt", "lower_bolt"}

\* C4 as stated: the V-groove cut and both bolt-hole cuts happen before
\* either gusset is fused into the Body.
C4_GrooveAndBoltsBeforeGussets ==
    InBracketBuild =>
        \A f \in BracketCuts :
            \A j \in Positions(result, f), k \in Positions(result, "gusset") :
                j < k

\* C4 (amended): build_bracket fuses both gussets first, then cuts the
\* V-groove, then the upper and the lower bolt hole, then cleans up and
\* applies the fillets; both gussets are in the Body before any of the cuts.
C4_GussetsBeforeGrooveAndBolts ==
    InBracketBuild =>
        /\ IsPrefix(Log(result), BracketExpected)
        /\ \A f \in BracketCuts :
               \A j \in Positions(result, f) :
                   /\ Cardinality(Positions(result, "gusset")) = 2
                   /\ \A k \in Positions(result, "gusset") : k < j
        /\ Positions(result, "fillet") # {} =>
               \A f \in BracketCuts : \E j \in Positions(result, f) :
                   \A k \in Positions(result, "fillet") : j < k

C4_Witness ==
    /\ InBracketBuild /\ pc = "end"
    /\ Log(GetShape(doc, "GussetBracket")) = BracketExpected

PostClassifyLabels ==
    {"b_fillet", "b_fillet_cleanup", "b_fillet_assert", "b_add", "recompute",
     "save_document", "export_parts", "report", "end"}

\* build_bracket has run its loop over bracket.Edges
Classified ==
    /\ gen = "bracket"
    /\ \/ pc \in PostClassifyLabels
       \/ pc = "aborted" /\ Positions(result, "fillet") # {}

\* C5: when the classifier matches no edge, makeFillet is not invoked,
\* nothing is raised or printed, and the Body that passed the pre-fillet
\* check is stored unchanged as GussetBracket.
C5_EmptySelectionSkipsFillet ==
    (Classified /\ fillet_edges = << >>) =>
        /\ exc = "none"
        /\ pc \notin {"aborted", "b_fillet", "b_fillet_cleanup", "b_fillet_assert"}
        /\ Positions(result, "fillet") = {}
        /\ Log(result) = SubSeq(BracketExpected, 1, 7)
        /\ result.solids = 1
        /\ ~PrintedTag("WARNING")
        /\ pc # "b_add" => /\ HasObject(doc, "GussetBracket")
                           /\ GetShape(doc, "GussetBracket") = result

C5_Witness ==
    /\ Classified /\ fillet_edges = << >> /\ pc = "end"
    /\ HasObject(doc, "GussetBracket")
    /\ SelectFilletEdges(BracketEdges) = << >>

DefaultBracket ==
    /\ LEG_THICKNESS = DEFAULT_LEG_THICKNESS
    /\ LEG_HEIGHT = DEFAULT_LEG_HEIGHT
    /\ PART_DEPTH = DEFAULT_PART_DEPTH

AtGussetFace(e) ==
    e.mid[3] \in {GUSSET_THICKNESS, PART_DEPTH - GUSSET_THICKNESS}

\* the three roles of the claim, by midpoint and length
IsLJunction(e) ==
    /\ e.mid[1] = LEG_THICKNESS /\ e.mid[2] = -FLANGE_THICKNESS
    /\ e.len > 10000

IsGussetToLeg(e) ==
    /\ e.mid[1] = LEG_THICKNESS /\ e.len > 50000 /\ AtGussetFace(e)
    /\ ~IsLJunction(e)

IsGussetToFlange(e) ==
    /\ e.mid[2] = -FLANGE_THICKNESS /\ e.len > 10000 /\ AtGussetFace(e)
    /\ ~IsLJunction(e) /\ ~IsGussetToLeg(e)

CountSelected(P(_)) ==
    Cardinality({k \in 1..Len(fillet_edges) : P(fillet_edges[k])})

SelectedNames == {fillet_edges[k].name : k \in 1..Len(fillet_edges)}

\* C6: with the default bracket parameters the classifier selects exactly
\* 5 edges of the assembled bracket: 1 L-junction edge, 2 gusset-to-leg
\* edges and 2 gusset-to-flange edges, all straight lines, and no other
\* edge of the bracket has one of the three roles.
C6_FiveFilletEdges ==
    (Classified /\ DefaultBracket) =>
        /\ Len(fillet_edges) = 5
        /\ Cardinality(SelectedNames) = 5
        /\ SelectedNames = {"l_junction", "gusset_leg_front", "gusset_leg_back",
                            "gusset_flange_front", "gusset_flange_back"}
        /\ \A k \in 1..Len(fillet_edges) : fillet_edges[k].line
        /\ CountSelected(IsLJunction) = 1
        /\ CountSelected(IsGussetToLeg) = 2
        /\ CountSelected(IsGussetToFlange) = 2
        /\ \A k \in 1..Len(BracketEdges) :
               LET e == BracketEdges[k]
               IN  (e.line /\ (IsLJunction(e) \/ IsGussetToLeg(e)
                                \/ IsGussetToFlange(e)))
                       => e.name \in SelectedNames

C6_Witness ==
    /\ Classified /\ DefaultBracket /\ pc = "end"
    /\ Len(fillet_edges) = 5
    /\ Positions(GetShape(doc, "GussetBracket"), "fillet") # {}

\* C7: the base of the V-groove profile cut into the flange is at least
\* 1 unit wider than the base of the V-tongue profile fused onto the holder.
C7_GrooveClearance ==
    (HasObject(doc, "HolderBlock") /\ HasObject(doc, "GussetBracket")) =>
        LET t == FeatureOps(GetShape(doc, "HolderBlock"), "tongue")[1].pts
            g == FeatureOps(GetShape(doc, "GussetBracket"), "vgroove")[1].pts
        IN  /\ g[1][2] = g[2][2] /\ t[1][2] = t[2][2]
            /\ g[2][3] - g[1][3] >= (t[2][1] - t[1][1]) + 1000
            /\ g[2][3] - g[1][3] = VGROOVE_Z_RIGHT - VGROOVE_Z_LEFT
            /\ t[2][1] - t[1][1] = TONGUE_X_RIGHT - TONGUE_X_LEFT

C7_Witness ==
    /\ gen = "bracket" /\ pc = "end"
    /\ HasObject(doc, "HolderBlock") /\ HasObject(doc, "GussetBracket")
    /\ Positions(GetShape(doc, "HolderBlock"), "tongue") # {}
    /\ Positions(GetShape(doc, "GussetBracket"), "vgroove") # {}

\* component of the step from p to q along the tab face direction
AlongFace(p, q) ==
    Mul(q[2] - p[2], FACE_DIR_Y) + Mul(q[3] - p[3], FACE_DIR_Z)

\* component of the step from p to q along the inward normal
AlongNormal(p, q) ==
    Mul(q[2] - p[2], INWARD_DIR_Y) + Mul(q[3] - p[3], INWARD_DIR_Z)

Near(a, b) == Abs(a - b) <= Tol

\* C8: for every clip and all clip depths, clip widths and tab angles the
\* far-end face height that places P3 from P4 is at least 1 unit: it is
\* CLIP_WIDTH - CLIP_DEPTH*cos(angle) when that is at least 1, else 1.
C8_FarFaceHeightClamped ==
    (gen = "box" /\ Positions(result, "clip") # {}) =>
        LET raw == CLIP_WIDTH - Mul(CLIP_DEPTH, Cos(TAB_ANGLE))
            clips == FeatureOps(result, "clip")
        IN  /\ far_face_height >= 1000
            /\ raw >= 1000 => far_face_height = raw
            /\ raw < 1000 => far_face_height = 1000
            /\ \A k \in 1..Len(clips) :
                   LET p == clips[k].pts
                   IN  /\ p[3][2] - p[4][2] = Mul(far_face_height, FACE_DIR_Y)
                       /\ p[3][3] - p[4][3] = Mul(far_face_height, FACE_DIR_Z)
                       /\ AlongFace(p[4], p[3]) >= 1000 - Tol
                       /\ Near(AlongFace(p[4], p[3]), far_face_height)

C8_Witness ==
    /\ gen = "box" /\ pc = "end"
    /\ Len(FeatureOps(result, "clip")) = 2
    /\ CLIP_WIDTH - Mul(CLIP_DEPTH, Cos(TAB_ANGLE)) < 1000
    /\ far_face_height = 1000

FaceCentre(x) == V(x, FACE_CENTER_Y, FACE_CENTER_Z)

\* centre of a closed rectangular 5-point loop
LoopCentre(l) ==
    V((l[1][1] + l[3][1]) \div 2, (l[1][2] + l[3][2]) \div 2,
      (l[1][3] + l[3][3]) \div 2)

LoopWidth(l) == l[3][1] - l[1][1]

LoopHeight(l) == AlongFace(l[1], l[2])

\* C9: the outer loop of the chamfer loft exceeds the inner loop by
\* 2 x chamfer depth in width (along X) and in height (along the face
\* direction); the inner loop has the switch cutout's size; both loops are
\* centred on the face centre, the outer one on the face surface and the
\* inner one pushed in by the chamfer depth along the inward normal.
C9_ChamferLoops ==
    (gen = "box" /\ Positions(result, "chamfer_loft") # {}) =>
        LET pts == FeatureOps(result, "chamfer_loft")[1].pts
            outer == SubSeq(pts, 1, 5)
            inner == SubSeq(pts, 6, 10)
            fc == FaceCentre(SWITCH_X)
        IN  /\ Len(pts) = 10
            /\ LoopWidth(outer) = LoopWidth(inner) + 2 * SWITCH_CHAMFER_DEPTH
            /\ LoopWidth(inner) = SWITCH_CUTOUT_WIDTH
            /\ Near(LoopHeight(outer),
                    LoopHeight(inner) + 2 * SWITCH_CHAMFER_DEPTH)
            /\ Near(LoopHeight(inner), SWITCH_CUTOUT_HEIGHT)
            /\ LoopCentre(outer)[1] = SWITCH_X
            /\ LoopCentre(inner)[1] = SWITCH_X
            /\ Near(AlongFace(fc, LoopCentre(outer)), 0)
            /\ Near(AlongFace(fc, LoopCentre(inner)), 0)
            /\ \A k \in 1..5 :
                   /\ Near(AlongNormal(fc, outer[k]), 0)
                   /\ Near(AlongNormal(fc, inner[k]), SWITCH_CHAMFER_DEPTH)

C9_Witness ==
    /\ gen = "box" /\ pc = "end"
    /\ Len(FeatureOps(result, "chamfer_loft")) = 1
    /\ Len(FeatureOps(result, "chamfer_loft")[1].pts) = 10

\* the arguments of box.cut(cavity) as the Body records them
ShellArgs == FeatureOps(result, "shell")[1].args

ShellBuilt == gen = "box" /\ Positions(result, "shell") # {}

\* cavity = outer minus 2 walls in width and length, minus 1 wall in
\* height, placed one wall in on all three axes so that it ends at the top
CavityRelations(a) ==
    /\ a[4] = a[1] - 2 * WALL_THICKNESS
    /\ a[5] = a[2] - 2 * WALL_THICKNESS
    /\ a[6] = a[3] - WALL_THICKNESS
    /\ a[7] = WALL_THICKNESS /\ a[8] = WALL_THICKNESS /\ a[9] = WALL_THICKNESS
    /\ a[9] + a[6] = a[3]

\* C10 as stated: the outer envelope is 80 x 49 x 17 and the cavity is
\* 76 x 45 x 15.
C10_Envelope80x49x17 ==
    ShellBuilt =>
        /\ SubSeq(ShellArgs, 1, 3) = << 80000, 49000, 17000 >>
        /\ SubSeq(ShellArgs, 4, 6) = << 76000, 45000, 15000 >>
        /\ CavityRelations(ShellArgs)

\* C10 (amended): the outer envelope is 80 x 79 x 17 and the cavity is
\* 76 x 75 x 15; cavity width and length are the outer ones minus
\* 2 x wall thickness, cavity depth is the outer height minus the wall
\* thickness, and the cavity, offset by the wall thickness on all three
\* axes, ends exactly at the box top.
C10_Envelope80x79x17 ==
    ShellBuilt =>
        /\ SubSeq(ShellArgs, 1, 3) = << 80000, 79000, 17000 >>
        /\ SubSeq(ShellArgs, 4, 6) = << 76000, 75000, 15000 >>
        /\ CavityRelations(ShellArgs)

C10_Witness ==
    /\ ShellBuilt /\ pc = "end"
    /\ TAB_ANGLE = DEFAULT_TAB_ANGLE
    /\ CLIP_WIDTH = DEFAULT_CLIP_WIDTH
    /\ CLIP_DEPTH = DEFAULT_CLIP_DEPTH

\* squared length of the vector (y, z), in units of 1/Unit^2
SquaredLength(y, z) == y * y + z * z

\* a vector of ten-thousandths has length 1 up to the rounding of its
\* components: |len^2 - 1| <= 2 * Tol / Unit
IsUnitVector(y, z) == Abs(SquaredLength(y, z) - Unit * Unit) <= 2 * Unit * Tol

\* the cylinders cut along the inward normal (bulb hole, screw holes)
NormalCuts == FeatureOps(result, "bulb_hole") \o FeatureOps(result, "screw_hole")

\* C11: for every tab angle the face-direction vector (FACE_DIR_Y,
\* FACE_DIR_Z) and the inward-normal vector (INWARD_DIR_Y, INWARD_DIR_Z)
\* are of unit length and their dot product is zero; the holes cut along
\* the normal carry that same vector as their axis.
C11_UnitOrthogonalDirections ==
    gen = "box" =>
        /\ IsUnitVector(FACE_DIR_Y, FACE_DIR_Z)
        /\ IsUnitVector(INWARD_DIR_Y, INWARD_DIR_Z)
        /\ FACE_DIR_Y * INWARD_DIR_Y + FACE_DIR_Z * INWARD_DIR_Z = 0
        /\ \A k \in 1..Len(NormalCuts) :
               LET a == NormalCuts[k].args
               IN  /\ a[3] = 0
                   /\ IsUnitVector(a[4], a[5])
                   /\ FACE_DIR_Y * a[4] + FACE_DIR_Z * a[5] = 0

C11_Witness ==
    /\ gen = "box" /\ pc = "end"
    /\ TAB_ANGLE \notin {0, 90}
    /\ Len(NormalCuts) = 3
    /\ FACE_DIR_Y # 0 /\ INWARD_DIR_Z # 0

\* the native document file each script saves
NativeFile(g) ==
    IF g = "box" THEN "CurrentLimitBox.FCStd" ELSE "SplineBracket.FCStd"

\* the objects each script stores in its document
StoredObjects(g) ==
    IF g = "box" THEN {"CurrentLimitBox"} ELSE {"HolderBlock", "GussetBracket"}

\* positions in the sequence of written files: the native saves, the exports
SavePositions == {k \in 1..Len(files) : files[k] = NativeFile(gen)}

ExportPositions == {k \in 1..Len(files) : files[k] # NativeFile(gen)}

\* the document is created once, before anything is built or stored
CreatedOnce ==
    /\ doc.created = (IF pc = "new_document" THEN 0 ELSE 1)
    /\ (result # NoShape \/ doc.objects # << >>) => doc.created = 1

\* C12 as stated: the document is created exactly once, all building
\* happens on it, and it is saved only after every export step has
\* finished; no export runs after the document has been saved.
C12_SaveAfterAllExports ==
    /\ CreatedOnce
    /\ doc.saves > 0 => (Outputs(gen) \ {NativeFile(gen)}) \subseteq Written
    /\ \A s \in SavePositions : \A e \in ExportPositions : e < s

\* C12 (amended): the document is created exactly once and all building
\* happens on it; it is saved at most once, after every built object has
\* been stored in it and before the export steps: every export runs after
\* the save, on an object stored in the saved document.
C12_SaveBeforeExports ==
    /\ CreatedOnce
    /\ doc.saves <= 1
    /\ doc.saves = Cardinality(SavePositions)
    /\ doc.saves = 1 => \A n \in StoredObjects(gen) : HasObject(doc, n)
    /\ \A e \in ExportPositions :
           /\ doc.saves = 1
           /\ \E s \in SavePositions : s < e
    /\ pc = "end" => /\ Len(files) = Cardinality(Outputs(gen))
                     /\ files[1] = NativeFile(gen)

C12_Witness ==
    /\ gen = "bracket" /\ pc = "end"
    /\ doc.created = 1 /\ doc.saves = 1
    /\ files = << "SplineBracket.FCStd", "SplineBracket-Holder.stl",
                  "SplineBracket-GussetBracket.stl" >>

\* the Body under construction and every shape stored in the document
AllShapes == {result} \cup {doc.objects[k].shape : k \in 1..Len(doc.objects)}

\* features built from one Part.makePolygon wire, by the plane of the wire
ConstantXFeatures == {"tab", "clip", "vgroove"}

ConstantZFeatures == {"groove", "tongue", "gusset"}

FacePlaneFeatures == {"notch", "switch_cutout"}

\* the point lists of the features in fs handed to Part.makePolygon
PolygonsOf(shape, fs) ==
    {shape.ops[k].pts : k \in {j \in 1..Len(shape.ops) : shape.ops[j].feature \in fs}}

\* the two wires of the chamfer loft, outer then inner
LoftLoops(shape) ==
    UNION {{SubSeq(o.pts, 1, Len(o.pts) \div 2),
            SubSeq(o.pts, Len(o.pts) \div 2 + 1, Len(o.pts))} :
           o \in {shape.ops[k] : k \in Positions(shape, "chamfer_loft")}}

IsClosedLoop(l) == Len(l) >= 4 /\ l[Len(l)] = l[1]

HasConstantX(l) == \A k \in 1..Len(l) : l[k][1] = l[1][1]

HasConstantZ(l) == \A k \in 1..Len(l) : l[k][3] = l[1][3]

\* every point has the same offset along the tab face's normal: the loop
\* lies in a plane parallel to the tab face
InTabFacePlane(l) == \A k \in 1..Len(l) : Near(AlongNormal(l[1], l[k]), 0)

\* C13: every point list handed to the polygon constructor (tab quad, pin
\* notches, clip trapezoids, switch cutout, chamfer outer and inner loops,
\* trapezoid groove, V-tongue, gusset triangle, V-groove) is a closed loop
\* whose last point equals its first, with all points in one plane: a
\* constant X (tab, clips, V-groove), a constant Z (groove, tongue, gusset)
\* or a plane of the tab face's orientation (notches, switch cutout,
\* chamfer loops).
C13_ClosedPlanarProfiles ==
    \A s \in AllShapes :
        /\ \A l \in PolygonsOf(s, ConstantXFeatures) :
               IsClosedLoop(l) /\ HasConstantX(l)
        /\ \A l \in PolygonsOf(s, ConstantZFeatures) :
               IsClosedLoop(l) /\ HasConstantZ(l)
        /\ \A l \in PolygonsOf(s, FacePlaneFeatures) \cup LoftLoops(s) :
               IsClosedLoop(l) /\ InTabFacePlane(l)

C13_Witness ==
    /\ gen = "box" /\ pc = "end"
    /\ TAB_ANGLE = DEFAULT_TAB_ANGLE
    /\ Cardinality(PolygonsOf(result, ConstantXFeatures)) = 3
    /\ Cardinality(PolygonsOf(result, FacePlaneFeatures)) = 3
    /\ Cardinality(LoftLoops(result)) = 2

\* width at height y of a V profile: a triangle given as base point, base
\* point, apex, whose base points are `across' apart (Z for the groove,
\* X for the tongue) and whose sides run straight to the apex
VWidthAt(p, across, y) ==
    LET base_y == p[1][2]
        apex_y == p[3][2]
    IN  IF y > base_y \/ y < apex_y THEN 0
        ELSE (across * (y - apex_y)) \div (base_y - apex_y)

\* depths below the mating plane Y = 0, every half unit down to the apex
MatingDepths == {k * 500 : k \in 0..(TONGUE_DEPTH \div 500)}

\* C14: with the default bracket parameters the V-tongue fits inside the
\* V-groove: at every depth d from 0 to TONGUE_DEPTH below the mating
\* plane Y = 0 the groove cut is at least as wide as the tongue, the
\* groove's base points being at Y = +1 and the tongue's at Y = 0.
C14_TongueFitsGroove ==
    (DefaultBracket /\ HasObject(doc, "HolderBlock")
                    /\ HasObject(doc, "GussetBracket")) =>
        LET t == FeatureOps(GetShape(doc, "HolderBlock"), "tongue")[1].pts
            g == FeatureOps(GetShape(doc, "GussetBracket"), "vgroove")[1].pts
        IN  /\ g[1][2] = 1000 /\ g[2][2] = 1000
            /\ t[1][2] = 0 /\ t[2][2] = 0
            /\ \A d \in MatingDepths :
                   VWidthAt(g, g[2][3] - g[1][3], -d)
                       >= VWidthAt(t, t[2][1] - t[1][1], -d)

====
